---------------------------- MODULE Spec2Model ----------------------------
(***************************************************************************)
(* Model of the two Singapore helper scripts:                              *)
(*   singapore/dedup_results.py         - dedup()                          *)
(*   singapore/generate_singapore_grid.py - point_in_polygon(),            *)
(*                                         point_in_any_polygon(),         *)
(*                                         generate_grid()                 *)
(*                                                                         *)
(* Strings are sequences of one-character strings, so that strip() and the *)
(* f-string key formatting are computed character by character.            *)
(* Coordinates are exact rational numbers of microdegrees.                 *)
(***************************************************************************)
EXTENDS Integers, Sequences, FiniteSets, TLC

(***************************************************************************)
(* Bounds                                                                  *)
(***************************************************************************)
\* longest raw CSV file (number of data rows) handed to the first dedup run
MaxRows == 3

(***************************************************************************)
(* dedup_results.py : strings and rows                                     *)
(***************************************************************************)
\* characters str.strip() removes
Whitespace == {" "}

\* restval of csv.DictReader: the value stored for a header column the line
\* has no cell for.  "None" is not a character, so None differs from every
\* string.
None == <<"None">>

Range(s) == {s[k] : k \in 1..Len(s)}

RECURSIVE lstrip(_)
lstrip(s) ==
    IF s # <<>> /\ Head(s) \in Whitespace THEN lstrip(Tail(s)) ELSE s

RECURSIVE rstrip(_)
rstrip(s) ==
    IF s # <<>> /\ s[Len(s)] \in Whitespace
    THEN rstrip(SubSeq(s, 1, Len(s) - 1))
    ELSE s

\* str.strip()
strip(s) == rstrip(lstrip(s))

\* row.get(field, ""), for the dict csv.DictReader builds from the header
\* `fieldnames` and the cells `row` of one line: a column the header does not
\* have yields the default "", a column the line is too short for yields None.
get(fieldnames, row, field) ==
    IF field \notin Range(fieldnames) THEN <<>>
    ELSE LET k == CHOOSE c \in 1..Len(fieldnames) : fieldnames[c] = field
         IN  IF k > Len(row) THEN None ELSE row[k]

\* f"did:{data_id}"
did(data_id) == <<"d", "i", "d", ":">> \o data_id

\* f"tloc:{title}|{lat}|{lon}"
tloc(title, lat, lon) ==
    <<"t", "l", "o", "c", ":">> \o title \o <<"|">> \o lat \o <<"|">> \o lon

\* key() without the test of line 48: the fallback key is built from empty
\* fields too
key_NoFieldTest(fieldnames, row) ==
    LET raw_id  == get(fieldnames, row, "data_id")
        raw_t   == get(fieldnames, row, "title")
        raw_lat == get(fieldnames, row, "latitude")
        raw_lon == get(fieldnames, row, "longitude")
    IN  IF raw_id = None THEN [kind |-> "AttributeError", key |-> <<>>]
        ELSE IF strip(raw_id) # <<>>
             THEN [kind |-> "key", key |-> did(strip(raw_id))]
        ELSE IF raw_t = None \/ raw_lat = None \/ raw_lon = None
             THEN [kind |-> "AttributeError", key |-> <<>>]
        ELSE [kind |-> "key",
              key  |-> tloc(strip(raw_t), strip(raw_lat), strip(raw_lon))]

\* Lines 39-52 of dedup(): the outcome of the key derivation for one row.
\*   kind = "key"            : `key` is the dedup key
\*   kind = "continue"       : no key (rows_no_key branch)
\*   kind = "AttributeError" : .strip() was called on None
key(fieldnames, row) ==
    LET raw_id  == get(fieldnames, row, "data_id")
        raw_t   == get(fieldnames, row, "title")
        raw_lat == get(fieldnames, row, "latitude")
        raw_lon == get(fieldnames, row, "longitude")
    IN  IF raw_id = None THEN [kind |-> "AttributeError", key |-> <<>>]
        ELSE IF strip(raw_id) # <<>>
             THEN [kind |-> "key", key |-> did(strip(raw_id))]
        ELSE IF raw_t = None \/ raw_lat = None \/ raw_lon = None
             THEN [kind |-> "AttributeError", key |-> <<>>]
        ELSE IF strip(raw_t) # <<>> /\ strip(raw_lat) # <<>>
                                   /\ strip(raw_lon) # <<>>
             THEN [kind |-> "key",
                   key  |-> tloc(strip(raw_t), strip(raw_lat), strip(raw_lon))]
        ELSE [kind |-> "continue", key |-> <<>>]

\* csv.DictWriter(fieldnames=header).writerow(row) followed by reading the
\* line back: a None value is written as the empty cell.
writerow(fieldnames, row) ==
    [c \in 1..Len(fieldnames) |-> IF c > Len(row) THEN <<>> ELSE row[c]]

writerows(fieldnames, rows) ==
    [r \in 1..Len(rows) |-> writerow(fieldnames, rows[r])]

(***************************************************************************)
(* Input files of the model                                                *)
(***************************************************************************)
Header4 == <<"data_id", "title", "latitude", "longitude">>
Header3 == <<"title", "latitude", "longitude">>
Header2 == <<"data_id", "phone">>
Headers == {Header4, Header3, Header2}

E  == <<>>
A  == <<"a">>
B  == <<"b">>
SP == <<" ">>

\* the lines a raw file may hold, per header: a line has at least one cell
\* (DictReader skips blank lines) and at most one per header column
RowPool(h) ==
    IF h = Header4 THEN
       { <<A, E, E, E>>,                          \* did:a
         <<<<" ", "a", " ">>, A, A, A>>,          \* did:a after strip
         <<B, A, A, A>>,                          \* did:b
         <<<<"a", "|", "a", "|", "a">>, E, E, E>>,\* did:a|a|a
         <<E, A, A, A>>,                          \* tloc:a|a|a
         <<SP, <<" ", "a">>, A, <<"a", " ">>>>,   \* tloc:a|a|a after strip
         <<E, <<"a", "|">>, A, A>>,               \* title "a|", lat "a"
         <<E, A, <<"|", "a">>, A>>,               \* title "a",  lat "|a"
         <<E, E, E, E>>,                          \* no key
         <<SP, A, E, A>>,                         \* no key
         <<A>>,                                   \* short line with data_id
         <<E, A>> }                               \* short line, no data_id
    ELSE IF h = Header3 THEN
       { <<A, A, A>>,
         <<<<" ", "a">>, A, A>>,
         <<B, A, A>>,
         <<A, E, A>>,
         <<A, A>> }
    ELSE
       { <<A, A>>, <<A, B>>, <<B, E>>, <<E, A>>, <<SP>>, <<B>> }

SeqsUpTo(S, n) == UNION {[1..m -> S] : m \in 0..n}

(***************************************************************************)
(* State                                                                   *)
(***************************************************************************)
VARIABLES
    \* dedup()
    header,       \* reader.fieldnames
    input,        \* the data rows of the file at input_path
    pos,          \* number of rows the `for row in reader` loop has consumed
    stats_only,   \* argument stats_only
    output_path,  \* TRUE iff an output path was given
    seen, rows_total, rows_kept, rows_dup, rows_no_key, kept_rows,
    output,       \* rows of the file written at output_path
    run,          \* 1: run on the raw file, 2: run on the output of run 1
    pc            \* "loop", "write", "done", "raised"

dvars == <<header, input, pos, stats_only, output_path, seen, rows_total,
           rows_kept, rows_dup, rows_no_key, kept_rows, output, run, pc>>

VARIABLES
    \* generate_grid()
    spacing_m, lat_step, lon_step,
    points,       \* the list being returned, as pairs of whole microdegrees
    gpc,          \* "outer", "inner", "done"
    \* lat, lon: the loop variables of generate_grid(), and the point handed
    \* to point_in_polygon()
    lat, lon,
    \* point_in_polygon()
    polygon, i, j, inside,
    ppc           \* "loop", "return", "ZeroDivisionError"

gvars == <<spacing_m, lat_step, lon_step, points, gpc>>
pvars == <<polygon, i, j, inside, ppc>>

vars == <<dvars, gvars, lat, lon, pvars>>

\* the parts of the state a script that is not running leaves alone
DedupIdle ==
    /\ header = <<>> /\ input = <<>> /\ pos = 0
    /\ stats_only = FALSE /\ output_path = FALSE
    /\ seen = {} /\ rows_total = 0 /\ rows_kept = 0 /\ rows_dup = 0
    /\ rows_no_key = 0 /\ kept_rows = <<>> /\ output = <<>>
    /\ run = 0 /\ pc = "idle"

GridIdle ==
    /\ spacing_m = 0 /\ lat_step = 0 /\ lon_step = 0
    /\ points = <<>> /\ gpc = "idle"

PipIdle ==
    /\ polygon = <<>> /\ i = 0 /\ j = 0 /\ inside = FALSE /\ ppc = "idle"

(***************************************************************************)
(* dedup()                                                                 *)
(***************************************************************************)
\* lines 19-26: the locals of a fresh call
Locals ==
    /\ seen = {}
    /\ rows_total = 0
    /\ rows_kept = 0
    /\ rows_dup = 0
    /\ rows_no_key = 0
    /\ kept_rows = <<>>
    /\ pos = 0
    /\ pc = "loop"

\* main() lines 88-92 and dedup() lines 18-34 on a raw file with a header
Init ==
    /\ header \in Headers
    /\ input \in SeqsUpTo(RowPool(header), MaxRows)
    /\ stats_only \in BOOLEAN
    /\ output_path \in BOOLEAN
    /\ (~stats_only => output_path)
    /\ output = <<>>
    /\ run = 1
    /\ Locals
    /\ GridIdle /\ PipIdle /\ lat = 0 /\ lon = 0

row == input[pos + 1]

\* lines 36-37, 40 / 45-47: .strip() on None raises AttributeError
RowRaise ==
    /\ pc = "loop" /\ pos < Len(input)
    /\ key(header, row).kind = "AttributeError"
    /\ rows_total' = rows_total + 1
    /\ pc' = "raised"
    /\ UNCHANGED <<header, input, pos, stats_only, output_path, seen,
                   rows_kept, rows_dup, rows_no_key, kept_rows, output, run,
                   gvars, lat, lon, pvars>>

\* lines 36-37, 50-52
RowNoKey ==
    /\ pc = "loop" /\ pos < Len(input)
    /\ key(header, row).kind = "continue"
    /\ rows_total' = rows_total + 1
    /\ rows_no_key' = rows_no_key + 1
    /\ pos' = pos + 1
    /\ UNCHANGED <<header, input, stats_only, output_path, seen,
                   rows_kept, rows_dup, kept_rows, output, run, pc,
                   gvars, lat, lon, pvars>>

\* RowDup without the `continue` of line 56: the duplicate falls through
\* to lines 58-61
RowDup_FallThrough ==
    /\ pc = "loop" /\ pos < Len(input)
    /\ key(header, input[pos + 1]).kind = "key"
    /\ key(header, input[pos + 1]).key \in seen
    /\ rows_total' = rows_total + 1
    /\ rows_dup' = rows_dup + 1
    /\ rows_kept' = rows_kept + 1
    /\ kept_rows' = IF ~stats_only THEN Append(kept_rows, input[pos + 1])
                    ELSE kept_rows
    /\ pos' = pos + 1
    /\ UNCHANGED <<header, input, stats_only, output_path, seen,
                   rows_no_key, output, run, pc,
                   gvars, lat, lon, pvars>>

\* lines 36-37, 54-56
RowDup ==
    /\ pc = "loop" /\ pos < Len(input)
    /\ key(header, row).kind = "key"
    /\ key(header, row).key \in seen
    /\ rows_total' = rows_total + 1
    /\ rows_dup' = rows_dup + 1
    /\ pos' = pos + 1
    /\ UNCHANGED <<header, input, stats_only, output_path, seen,
                   rows_kept, rows_no_key, kept_rows, output, run, pc,
                   gvars, lat, lon, pvars>>

\* RowKept without the seen.add(key) of line 58
RowKept_NoSeenAdd ==
    /\ pc = "loop" /\ pos < Len(input)
    /\ key(header, input[pos + 1]).kind = "key"
    /\ key(header, input[pos + 1]).key \notin seen
    /\ rows_total' = rows_total + 1
    /\ rows_kept' = rows_kept + 1
    /\ kept_rows' = IF ~stats_only THEN Append(kept_rows, input[pos + 1])
                    ELSE kept_rows
    /\ pos' = pos + 1
    /\ UNCHANGED <<header, input, stats_only, output_path, seen,
                   rows_dup, rows_no_key, output, run, pc,
                   gvars, lat, lon, pvars>>

\* RowKept with line 59 moved under the `if not stats_only` of line 60
RowKept_CountWhenStored ==
    /\ pc = "loop" /\ pos < Len(input)
    /\ key(header, input[pos + 1]).kind = "key"
    /\ key(header, input[pos + 1]).key \notin seen
    /\ rows_total' = rows_total + 1
    /\ seen' = seen \cup {key(header, input[pos + 1]).key}
    /\ rows_kept' = IF ~stats_only THEN rows_kept + 1 ELSE rows_kept
    /\ kept_rows' = IF ~stats_only THEN Append(kept_rows, input[pos + 1])
                    ELSE kept_rows
    /\ pos' = pos + 1
    /\ UNCHANGED <<header, input, stats_only, output_path,
                   rows_dup, rows_no_key, output, run, pc,
                   gvars, lat, lon, pvars>>

\* lines 36-37, 58-61
RowKept ==
    /\ pc = "loop" /\ pos < Len(input)
    /\ key(header, row).kind = "key"
    /\ key(header, row).key \notin seen
    /\ rows_total' = rows_total + 1
    /\ seen' = seen \cup {key(header, row).key}
    /\ rows_kept' = rows_kept + 1
    /\ kept_rows' = IF ~stats_only THEN Append(kept_rows, row) ELSE kept_rows
    /\ pos' = pos + 1
    /\ UNCHANGED <<header, input, stats_only, output_path,
                   rows_dup, rows_no_key, output, run, pc,
                   gvars, lat, lon, pvars>>

\* line 36: the reader is exhausted
EndLoop ==
    /\ pc = "loop" /\ pos = Len(input)
    /\ pc' = "write"
    /\ UNCHANGED <<header, input, pos, stats_only, output_path, seen,
                   rows_total, rows_kept, rows_dup, rows_no_key, kept_rows,
                   output, run, gvars, lat, lon, pvars>>

\* lines 63-69
WriteOutput ==
    /\ pc = "write"
    /\ output' = IF ~stats_only /\ output_path
                 THEN writerows(header, kept_rows)
                 ELSE output
    /\ pc' = "done"
    /\ UNCHANGED <<header, input, pos, stats_only, output_path, seen,
                   rows_total, rows_kept, rows_dup, rows_no_key, kept_rows,
                   run, gvars, lat, lon, pvars>>

\* a second invocation of the script, on the file the first one wrote
Rerun ==
    /\ pc = "done" /\ run = 1
    /\ ~stats_only /\ output_path
    /\ run' = 2
    /\ input' = output
    /\ output' = <<>>
    /\ stats_only' \in BOOLEAN
    /\ output_path' = TRUE
    /\ seen' = {}
    /\ rows_total' = 0
    /\ rows_kept' = 0
    /\ rows_dup' = 0
    /\ rows_no_key' = 0
    /\ kept_rows' = <<>>
    /\ pos' = 0
    /\ pc' = "loop"
    /\ UNCHANGED <<header, gvars, lat, lon, pvars>>

Next ==
    \/ RowRaise
    \/ RowNoKey
    \/ RowDup
    \/ RowKept
    \/ EndLoop
    \/ WriteOutput
    \/ Rerun

Spec == Init /\ [][Next]_vars


(***************************************************************************)
(* generate_singapore_grid.py : numbers                                    *)
(*                                                                         *)
(* A coordinate is an exact rational number of microdegrees,               *)
(* [u, n, d] standing for u + n/d with 0 <= n < d.  The polygon vertices,  *)
(* which the source gives with three decimals, are whole millidegrees.     *)
(* Sums, products, quotients and comparisons are exact; the rounding of    *)
(* IEEE doubles (relative error 2^-53) is not modelled.                    *)
(***************************************************************************)
\* microdegrees per millidegree
Scale == 1000

Q(u, n, d) == [u |-> u, n |-> n, d |-> d]

\* the rational num/den
QFrac(num, den) == Q(num \div den, num % den, den)

\* a + b, for two numbers over the same denominator
QAdd(a, b) == Q(a.u + b.u + (a.n + b.n) \div a.d, (a.n + b.n) % a.d, a.d)

\* a < b, for two numbers over the same denominator
QLess(a, b) == a.u < b.u \/ (a.u = b.u /\ a.n < b.n)

\* a <= m, for a whole number m of microdegrees
QLeqInt(a, m) == a.u < m \/ (a.u = m /\ a.n = 0)

\* round(x, 6) of a number of degrees, in microdegrees (ties to even)
round6(a) ==
    IF 2 * a.n < a.d THEN a.u
    ELSE IF 2 * a.n > a.d THEN a.u + 1
    ELSE IF a.u % 2 = 0 THEN a.u ELSE a.u + 1

(***************************************************************************)
(* Land polygons, lines 27-105, as <<lat, lon>> in millidegrees            *)
(***************************************************************************)
MAIN_ISLAND ==
    <<<<1250, 103618>>, <<1265, 103600>>, <<1290, 103601>>, <<1310, 103620>>,
      <<1320, 103642>>, <<1355, 103650>>, <<1385, 103680>>, <<1415, 103720>>,
      <<1430, 103740>>, <<1445, 103760>>, <<1450, 103780>>, <<1455, 103800>>,
      <<1460, 103830>>, <<1465, 103860>>, <<1460, 103880>>, <<1455, 103900>>,
      <<1450, 103920>>, <<1420, 103950>>, <<1400, 103970>>, <<1385, 103985>>,
      <<1370, 104000>>, <<1360, 104020>>, <<1345, 104040>>, <<1330, 104050>>,
      <<1310, 104050>>, <<1300, 104035>>, <<1290, 103990>>, <<1280, 103950>>,
      <<1270, 103910>>, <<1265, 103870>>, <<1260, 103830>>, <<1265, 103800>>,
      <<1270, 103770>>, <<1275, 103740>>, <<1270, 103710>>, <<1260, 103680>>,
      <<1255, 103650>>, <<1250, 103618>> >>

SENTOSA ==
    <<<<1240, 103825>>, <<1240, 103860>>, <<1252, 103860>>, <<1252, 103825>> >>

JURONG_ISLAND ==
    <<<<1255, 103660>>, <<1255, 103720>>, <<1280, 103720>>, <<1280, 103660>> >>

PULAU_UBIN ==
    <<<<1395, 103955>>, <<1395, 103990>>, <<1420, 103990>>, <<1420, 103955>> >>

PULAU_TEKONG ==
    <<<<1380, 104010>>, <<1380, 104060>>, <<1420, 104060>>, <<1420, 104010>> >>

POLYGONS == <<MAIN_ISLAND, SENTOSA, JURONG_ISLAND, PULAU_UBIN, PULAU_TEKONG>>

(***************************************************************************)
(* point_in_polygon(), lines 108-119                                       *)
(***************************************************************************)
\* y > lat, for a vertex latitude y (whole millidegrees)
GreaterThan(y, lt) == y * Scale > lt.u

\* lon < (xj - xi) * (lat - yi) / (yj - yi) + xi, for yj # yi: compared as
\* (lon - xi) * (yj - yi) against (xj - xi) * (lat - yi), each side split
\* into its whole part and its fraction
Crosses(lt, ln, yi, xi, yj, xj) ==
    LET dy == yj - yi
        dx == xj - xi
        Lw == (ln.u - xi * Scale) * dy + (ln.n * dy) \div ln.d
        Lf == (ln.n * dy) % ln.d
        Rw == dx * (lt.u - yi * Scale) + (dx * lt.n) \div lt.d
        Rf == (dx * lt.n) % lt.d
    IN  IF dy > 0
        THEN Lw < Rw \/ (Lw = Rw /\ Lf * lt.d < Rf * ln.d)
        ELSE Lw > Rw \/ (Lw = Rw /\ Lf * lt.d > Rf * ln.d)

\* Candidate with (yj >= lat) for (yj > lat)
Candidate_NonStrict(lt, yi, yj) ==
    GreaterThan(yi, lt) # (yj * Scale > lt.u \/ (yj * Scale = lt.u /\ lt.n = 0))

\* line 116, first operand of `and`: the edge is a crossing candidate
Candidate(lt, yi, yj) == GreaterThan(yi, lt) # GreaterThan(yj, lt)

\* Edge with line 117 as `inside = True`
Edge_SetsInside(ins, lt, ln, vi, vj) ==
    LET yi == vi[1]
        xi == vi[2]
        yj == vj[1]
        xj == vj[2]
    IN  IF Candidate(lt, yi, yj)
        THEN IF yj - yi = 0
             THEN [inside |-> ins, err |-> TRUE]
             ELSE [inside |-> IF Crosses(lt, ln, yi, xi, yj, xj)
                              THEN TRUE ELSE ins,
                   err |-> FALSE]
        ELSE [inside |-> ins, err |-> FALSE]

\* lines 114-117 for the edge from vertex vj to vertex vi: the new value of
\* `inside`, or the ZeroDivisionError of dividing by yj - yi = 0
Edge(ins, lt, ln, vi, vj) ==
    LET yi == vi[1]
        xi == vi[2]
        yj == vj[1]
        xj == vj[2]
    IN  IF Candidate(lt, yi, yj)
        THEN IF yj - yi = 0
             THEN [inside |-> ins, err |-> TRUE]
             ELSE [inside |-> IF Crosses(lt, ln, yi, xi, yj, xj)
                              THEN ~ins ELSE ins,
                   err |-> FALSE]
        ELSE [inside |-> ins, err |-> FALSE]

\* lines 113-118, from iteration a on
RECURSIVE EdgeLoop(_, _, _, _, _, _)
EdgeLoop(lt, ln, poly, a, b, st) ==
    IF a > Len(poly) \/ st.err THEN st
    ELSE EdgeLoop(lt, ln, poly, a + 1, a,
                  Edge(st.inside, lt, ln, poly[a], poly[b]))

point_in_polygon(lt, ln, poly) ==
    EdgeLoop(lt, ln, poly, 1, Len(poly), [inside |-> FALSE, err |-> FALSE])

\* lines 122-127, from polygon k on
RECURSIVE AnyLoop(_, _, _, _)
AnyLoop(lt, ln, polygons, k) ==
    IF k > Len(polygons) THEN [inside |-> FALSE, err |-> FALSE]
    ELSE LET r == point_in_polygon(lt, ln, polygons[k])
         IN  IF r.err \/ r.inside THEN r
             ELSE AnyLoop(lt, ln, polygons, k + 1)

point_in_any_polygon(lt, ln, polygons) == AnyLoop(lt, ln, polygons, 1)

(***************************************************************************)
(* generate_grid(), lines 130-160                                          *)
(***************************************************************************)
\* line 143: lat_step = spacing_m / 111320.0 degrees
\*           = spacing_m * 10^6 / 111320 = spacing_m * 25000 / 2783 microdegrees
LatNum == 25000
LatDen == 2783

\* line 144: lon_step = spacing_m / (111320.0 * cos(radians(1.35))) degrees.
\* 10^6 / (111320 * cos(1.35 deg)) = 8.985605882576... microdegrees per
\* metre; 114863/12783 is its best rational approximation with a
\* denominator below 40000 (relative error 2.7e-11).
LonNum == 114863
LonDen == 12783

\* lines 147-148, in microdegrees
lat_min == 1200000
lat_max == 1470000
lon_min == 103590000
lon_max == 104070000

\* values of --spacing (line 166: any integer)
Spacings == {185, 5000, 0, -250}

\* how many steps a loop variable that moves away from its upper bound is
\* followed
MaxDescent == 3

GridInit ==
    /\ spacing_m \in Spacings
    /\ lat_step = QFrac(spacing_m * LatNum, LatDen)
    /\ lon_step = QFrac(spacing_m * LonNum, LonDen)
    /\ points = <<>>
    /\ lat = Q(lat_min, 0, LatDen)
    /\ lon = Q(lon_min, 0, LonDen)
    /\ gpc = "outer"
    /\ DedupIdle /\ PipIdle

\* line 152: while lat <= lat_max, line 153; line 160 when the test fails
GridOuter ==
    /\ gpc = "outer"
    /\ IF QLeqInt(lat, lat_max)
       THEN lon' = Q(lon_min, 0, LonDen) /\ gpc' = "inner"
       ELSE lon' = lon /\ gpc' = "done"
    /\ UNCHANGED <<spacing_m, lat_step, lon_step, points, lat, dvars, pvars>>

\* lines 154-157: one iteration of the inner loop
GridInner ==
    /\ gpc = "inner"
    /\ QLeqInt(lon, lon_max)
    /\ lon_step.u >= 0 \/ lon.u - lon_min >= MaxDescent * lon_step.u
    /\ points' = IF point_in_any_polygon(lat, lon, POLYGONS).inside
                 THEN Append(points, <<round6(lat), round6(lon)>>)
                 ELSE points
    /\ lon' = QAdd(lon, lon_step)
    /\ UNCHANGED <<spacing_m, lat_step, lon_step, gpc, lat, dvars, pvars>>

\* line 154 when the test fails, line 158
GridEndRow ==
    /\ gpc = "inner"
    /\ ~QLeqInt(lon, lon_max)
    /\ lat' = QAdd(lat, lat_step)
    /\ gpc' = "outer"
    /\ UNCHANGED <<spacing_m, lat_step, lon_step, points, lon, dvars, pvars>>

GridNext ==
    \/ GridOuter
    \/ GridInner
    \/ GridEndRow

GridSpec == GridInit /\ [][GridNext]_vars

(***************************************************************************)
(* point_in_polygon() run edge by edge on test polygons                    *)
(***************************************************************************)
\* largest vertex coordinate (millidegrees) of the test rectangles
MaxCoord == 2

\* the ring orders of the rectangle [y0, y1] x [x0, x1]: each starting
\* corner, in both directions
Rings(y0, y1, x0, x1) ==
    LET c == << <<y0, x0>>, <<y0, x1>>, <<y1, x1>>, <<y1, x0>> >>
    IN  {[k \in 1..4 |-> c[((s + k - 2) % 4) + 1]] : s \in 1..4}
        \cup {[k \in 1..4 |-> c[((s - k + 4) % 4) + 1]] : s \in 1..4}

Rectangles ==
    UNION {Rings(y0, y1, x0, x1) :
             <<y0, y1, x0, x1>> \in
                {q \in (0..MaxCoord) \X (0..MaxCoord) \X (0..MaxCoord)
                        \X (0..MaxCoord) : q[1] < q[2] /\ q[3] < q[4]}}

\* polygons with edges of zero latitude delta of every kind: a flat
\* triangle side, a ring whose last vertex repeats the first, a flat line
Degenerate ==
    { << <<0, 0>>, <<0, 2>>, <<2, 1>> >>,
      << <<0, 0>>, <<2, 0>>, <<2, 2>>, <<0, 0>> >>,
      << <<1, 0>>, <<1, 1>>, <<1, 2>> >> }

PipPolygons == Rectangles \cup Degenerate \cup Range(POLYGONS)

\* test points of a polygon: on, just below and just above every vertex
\* coordinate, whole and half microdegrees (small polygons); on every
\* vertex coordinate (the land polygons)
Offsets(poly) == IF Len(poly) <= 4 THEN {-1, 0, 1} ELSE {0}
Halves(poly) == IF Len(poly) <= 4 THEN {0, 1} ELSE {0}

PipCoords(poly, c) ==
    {Q(poly[k][c] * Scale + o, n, 2) :
        k \in 1..Len(poly), o \in Offsets(poly), n \in Halves(poly)}

PipInit ==
    /\ polygon \in PipPolygons
    /\ lat \in PipCoords(polygon, 1)
    /\ lon \in PipCoords(polygon, 2)
    /\ i = 1
    /\ j = Len(polygon)
    /\ inside = FALSE
    /\ ppc = "loop"
    /\ DedupIdle /\ GridIdle

\* lines 113-118: one iteration of `for i in range(n)` (i counts from 1)
PipEdge ==
    /\ ppc = "loop"
    /\ i <= Len(polygon)
    /\ LET r == Edge(inside, lat, lon, polygon[i], polygon[j])
       IN  IF r.err
           THEN /\ ppc' = "ZeroDivisionError"
                /\ UNCHANGED <<i, j, inside>>
           ELSE /\ inside' = r.inside
                /\ j' = i
                /\ i' = i + 1
                /\ ppc' = ppc
    /\ UNCHANGED <<polygon, lat, lon, dvars, gvars>>

\* line 119
PipReturn ==
    /\ ppc = "loop"
    /\ i > Len(polygon)
    /\ ppc' = "return"
    /\ UNCHANGED <<polygon, i, j, inside, lat, lon, dvars, gvars>>

PipNext ==
    \/ PipEdge
    \/ PipReturn

PipSpec == PipInit /\ [][PipNext]_vars

(***************************************************************************)
(* Properties of dedup()  (specification Spec)                             *)
(***************************************************************************)
KeyOf(k) == key(header, input[k])

\* row k derives a key that no earlier row derives
FirstOfItsKey(k) ==
    /\ KeyOf(k).kind = "key"
    /\ \A m \in 1..(k - 1) :
          ~(KeyOf(m).kind = "key" /\ KeyOf(m).key = KeyOf(k).key)

\* the rows among the first n that are the first of their key, in input order
RECURSIVE FirstOccurrences(_)
FirstOccurrences(n) ==
    IF n = 0 THEN <<>>
    ELSE IF FirstOfItsKey(n)
         THEN Append(FirstOccurrences(n - 1), input[n])
         ELSE FirstOccurrences(n - 1)

\* C1: after any number of consumed rows, and so at the end of the pass, the
\* kept rows are exactly the consumed rows whose key is derived and is not
\* derived by an earlier row, in their input order.
C1_FirstOccurrenceWins ==
    (pc \in {"loop", "write", "done"} /\ ~stats_only)
        => kept_rows = FirstOccurrences(pos)

\* C1 witness: a finished pass that kept two rows and dropped a duplicate
C1_Witness ==
    /\ pc = "done" /\ run = 1 /\ ~stats_only
    /\ Len(kept_rows) >= 2 /\ rows_dup >= 1
    /\ kept_rows = FirstOccurrences(pos)

\* the trimmed value of a field of a row, a missing field being ""
Trimmed(r, field) == strip(get(header, r, field))

\* identity of two keyed rows as the tagged value the key stands for
SameIdentity(r1, r2) ==
    \/ /\ Trimmed(r1, "data_id") # <<>>
       /\ Trimmed(r1, "data_id") = Trimmed(r2, "data_id")
    \/ /\ Trimmed(r1, "data_id") = <<>>
       /\ Trimmed(r2, "data_id") = <<>>
       /\ Trimmed(r1, "title") = Trimmed(r2, "title")
       /\ Trimmed(r1, "latitude") = Trimmed(r2, "latitude")
       /\ Trimmed(r1, "longitude") = Trimmed(r2, "longitude")

\* C2: two consumed rows that both derive a key have equal keys if and only
\* if they have the same non-empty trimmed data_id, or both have an empty
\* trimmed data_id and equal (title, latitude, longitude) triples.
C2_KeyEqualityStructural ==
    pc \in {"loop", "write", "done"} =>
        \A a \in 1..pos, b \in 1..pos :
            (KeyOf(a).kind = "key" /\ KeyOf(b).kind = "key")
                => ((KeyOf(a).key = KeyOf(b).key)
                        <=> SameIdentity(input[a], input[b]))

\* a row whose fields all carry a value, with an empty trimmed data_id and an
\* empty trimmed title, latitude or longitude
NoKeyRecord(r) ==
    /\ \A f \in {"data_id", "title", "latitude", "longitude"} :
          get(header, r, f) # None
    /\ Trimmed(r, "data_id") = <<>>
    /\ \E f \in {"title", "latitude", "longitude"} : Trimmed(r, f) = <<>>

\* C3: processing a record from which no key can be derived adds one to
\* rows_no_key and leaves the seen-set, the kept list, the kept counter and
\* the duplicate counter unchanged.
C3_NoKeyRecordLeavesNoTrace ==
    [][(pc = "loop" /\ pos < Len(input) /\ NoKeyRecord(input[pos + 1]))
          => /\ rows_no_key' = rows_no_key + 1
             /\ rows_total' = rows_total + 1
             /\ seen' = seen
             /\ kept_rows' = kept_rows
             /\ rows_kept' = rows_kept
             /\ rows_dup' = rows_dup]_vars

\* C3 witness: a finished pass over two no-key records (the second is not a
\* duplicate of the first) and a keyed one
C3_Witness ==
    /\ pc = "done" /\ run = 1
    /\ pos = 3
    /\ NoKeyRecord(input[1]) /\ NoKeyRecord(input[2])
    /\ rows_no_key = 2 /\ rows_dup = 0 /\ rows_kept = 1

\* C4: key derivation never raises on a record with missing fields or fields
\* without a value; the pass goes on to the next record.
C4_MalformedRecordNeverRaises == pc # "raised"

\* C5: a run on the output of a previous run reports no duplicates and no
\* no-key rows, keeps every row, never raises, and returns its input as is.
C5_Idempotent ==
    run = 2 =>
        /\ pc # "raised"
        /\ rows_dup = 0
        /\ rows_no_key = 0
        /\ rows_kept = rows_total
        /\ (pc \in {"write", "done"} => rows_total = Len(input))
        /\ ((pc \in {"write", "done"} /\ ~stats_only) => kept_rows = input)
        /\ ((pc = "done" /\ ~stats_only) => output = input)

\* C5 witness: a finished second run, in normal mode, over a file of
\* several rows
C5_Witness ==
    /\ run = 2 /\ pc = "done" /\ ~stats_only
    /\ Len(input) >= 2
    /\ output = input

\* C10: after every processed record, in both modes, the counters add up,
\* rows_kept counts the seen-set, the kept list has rows_kept entries in
\* normal mode and none in statistics-only mode, and the counters are
\* functions of the consumed rows alone (so equal in both modes).
C10_CounterInvariant ==
    pc \in {"loop", "write", "done"} =>
        /\ rows_total = pos
        /\ rows_total = rows_kept + rows_dup + rows_no_key
        /\ rows_kept = Cardinality(seen)
        /\ Len(kept_rows) = (IF stats_only THEN 0 ELSE rows_kept)
        /\ rows_kept = Cardinality({KeyOf(k).key :
                           k \in {m \in 1..pos : KeyOf(m).kind = "key"}})
        /\ rows_no_key = Cardinality({m \in 1..pos : KeyOf(m).kind = "continue"})

\* C10 witness: a finished statistics-only pass with one row of each outcome
C10_Witness ==
    /\ pc = "done" /\ stats_only
    /\ rows_kept = 1 /\ rows_dup = 1 /\ rows_no_key = 1
    /\ kept_rows = <<>>

(***************************************************************************)
(* Properties of generate_grid()  (specification GridSpec)                 *)
(***************************************************************************)
\* point_in_any_polygon for an emitted point (whole microdegrees)
OnLand(pt) ==
    point_in_any_polygon(Q(pt[1], 0, 1), Q(pt[2], 0, 1), POLYGONS).inside

\* C6: every emitted point, as rounded to 6 decimals, lies inside a land
\* polygon.  The list only grows by appending, so every emitted point is the
\* last one of some reachable state.
C6_EmittedPointsOnLand ==
    points # <<>> => OnLand(points[Len(points)])

\* C7: on every iteration the loop variable strictly advances toward its
\* upper bound.
C7_LoopVariablesAdvance ==
    [][/\ (gpc = "inner" /\ gpc' = "inner") => QLess(lon, lon')
       /\ (gpc = "inner" /\ gpc' = "outer") => QLess(lat, lat')]_vars

(***************************************************************************)
(* Properties of point_in_polygon()  (specification PipSpec)               *)
(***************************************************************************)
Lats(poly) == {poly[k][1] : k \in 1..Len(poly)}
Lons(poly) == {poly[k][2] : k \in 1..Len(poly)}
Min(S) == CHOOSE x \in S : \A y \in S : x <= y
Max(S) == CHOOSE x \in S : \A y \in S : x >= y

\* four distinct corners, consecutive ones (cyclically) on a common side
IsRectangle(poly) ==
    /\ Len(poly) = 4
    /\ Cardinality(Lats(poly)) = 2 /\ Cardinality(Lons(poly)) = 2
    /\ Cardinality(Range(poly)) = 4
    /\ \A k \in 1..4 :
          LET v == poly[k]
              w == poly[(k % 4) + 1]
          IN  (v[1] = w[1]) # (v[2] = w[2])

\* m < a and a < m, for a whole number m of millidegrees
Above(a, m) == a.u > m * Scale \/ (a.u = m * Scale /\ a.n > 0)
Below(a, m) == a.u < m * Scale

StrictlyInside(lt, ln, poly) ==
    /\ Above(lt, Min(Lats(poly))) /\ Below(lt, Max(Lats(poly)))
    /\ Above(ln, Min(Lons(poly))) /\ Below(ln, Max(Lons(poly)))

StrictlyOutside(lt, ln, poly) ==
    \/ Below(lt, Min(Lats(poly))) \/ Above(lt, Max(Lats(poly)))
    \/ Below(ln, Min(Lons(poly))) \/ Above(ln, Max(Lons(poly)))

\* C8: for an axis-aligned rectangle in ring order, point_in_polygon returns
\* true for a point strictly inside and false for a point strictly outside.
C8_RectangleContainment ==
    (ppc = "return" /\ IsRectangle(polygon)) =>
        /\ StrictlyInside(lat, lon, polygon) => inside
        /\ StrictlyOutside(lat, lon, polygon) => ~inside

\* C8 witness: a returned call for a point half a microdegree inside the
\* corner of a test rectangle
C8_Witness ==
    /\ ppc = "return" /\ IsRectangle(polygon)
    /\ StrictlyInside(lat, lon, polygon)
    /\ lat.n = 1 /\ lon.n = 1
    /\ inside

\* the edge the next iteration looks at has both vertices at one latitude
FlatEdge == ppc = "loop" /\ i <= Len(polygon) /\ polygon[i][1] = polygon[j][1]

\* C9: no call raises ZeroDivisionError, and an edge whose vertices have the
\* same latitude leaves the inside flag as it is.
C9_FlatEdgeNeverDivides ==
    /\ [](ppc # "ZeroDivisionError")
    /\ [][FlatEdge => (inside' = inside /\ ppc' = "loop")]_vars

\* C9 witness: the zero-length closing edge of MAIN_ISLAND has been passed
\* for a point at that edge's latitude
C9_Witness ==
    /\ polygon = MAIN_ISLAND
    /\ MAIN_ISLAND[1] = MAIN_ISLAND[Len(MAIN_ISLAND)]
    /\ lat = Q(MAIN_ISLAND[1][1] * Scale, 0, 2)
    /\ ppc = "loop" /\ i = 2 /\ j = 1
    /\ ~inside

=============================================================================
